---- MODULE Spec2Model ----
(***************************************************************************)
(* Gem Puzzle (N-puzzle): the search state, successor generation, the      *)
(* parity solvability test, the Manhattan heuristic and the batch harness  *)
(* massive_test.                                                           *)
(*                                                                         *)
(* Python lists are modelled as TLA+ sequences.  Python indexes from 0,    *)
(* TLA+ from 1: a Python position p is element p + 1 of the sequence, and  *)
(* blank_pos keeps the Python (0-based) value.                             *)
(***************************************************************************)
EXTENDS Integers, Sequences, FiniteSets, TLC

VARIABLES
    \* utils/gem_puzzle.py, utils/dataset_creation.py
    arg,            \* the tile list handed to the GemPuzzleState constructor
    state,          \* the current GemPuzzleState: [size, tile_list, blank_pos]
    successors,     \* the list returned by the last get_successors(state) call
    goal_state,     \* the second GemPuzzleState handed to manhattan_distance
    moves,          \* number of get_successors moves applied so far
    goal_dist,      \* <<least number of moves from state to goal_state>>, -1: none
    solvable,       \* <<what the last is_solvable(state.tile_list) call returned>>
    h,              \* <<what the last manhattan_distance(state, goal_state) call returned>>
    \* tests/lab_test.py
    corpus,         \* the lines of the task file
    task_num,       \* the index of the line massive_test reads next
    stat,           \* the three lists massive_test appends to
    pc,             \* where massive_test is: "loop", "returned" or "raised"
    result,         \* what massive_test returned
    outcomes,       \* what the search function did on each line read so far
    \* GemPuzzleState.__eq__, GemPuzzleState.__hash__
    other,          \* the state that state is compared with
    hash_seed,      \* the seed of str hashing in this process
    cmp,            \* <<what state == other, hash(state), hash(other) returned>>
    \* get_successors on objects: which list object each state refers to
    heap,           \* [lists: the list objects, objects: the GemPuzzleState objects]
    returned,       \* the objects in the list the last get_successors call returned
    calls,          \* number of get_successors calls made on the heap
    \* generate_tasks
    tasks_file,     \* the characters of the file at task_file_path
    write_buffer,   \* the characters written to the file object and not yet in the file
    old_content,    \* the characters the file held when generate_tasks opened it
    number_of_tasks, \* the argument number_of_tasks
    gen_size,       \* the argument size
    gen_tile_list,  \* the local tile_list: the candidate drawn last
    written,        \* number of iterations of the for loop completed
    gen_pc,         \* where generate_tasks is: "draw", "test", "returned"
    last_rejected   \* the candidate is_acceptable_task refused last

puzzle_vars == <<arg, state, successors, goal_state, moves, goal_dist, solvable, h>>
harness_vars == <<corpus, task_num, stat, pc, result, outcomes>>
eq_vars == <<other, hash_seed, cmp>>
heap_vars == <<heap, returned, calls>>
gen_vars == <<tasks_file, write_buffer, old_content, number_of_tasks, gen_size, gen_tile_list, written, gen_pc,
              last_rejected>>
vars == <<puzzle_vars, harness_vars, eq_vars, heap_vars, gen_vars>>

\* solvable, h and goal_dist hold << >> before the call (the search) and
\* <<value>> after it.
NotCalled == << >>

\* state before the constructor has run.
Unconstructed == [constructed |-> FALSE]

(***************************************************************************)
(* Helpers for Python built-ins.                                           *)
(***************************************************************************)

\* Mutant of Abs: the sign is kept.
AbsMissing(x) == x

\* abs()
Abs(x) == IF x < 0 THEN -x ELSE x

\* int(len ** 0.5) and int(math.sqrt(len)): the floor of the square root
\* (exact for the small lengths used here).
IntSqrt(len) == CHOOSE r \in 0..len : r * r <= len /\ (r + 1) * (r + 1) > len

\* list.index(v): the 0-based position of the first occurrence of v.
\* Only used where v is in the list.
IndexOf(list, v) ==
    (CHOOSE i \in 1..Len(list) :
        list[i] = v /\ \A j \in 1..(i - 1) : list[j] # v) - 1

\* v in list
Contains(list, v) == \E i \in 1..Len(list) : list[i] = v

\* list(range(1, n + 1))
RangeList(n) == [i \in 1..n |-> i]

(***************************************************************************)
(* utils/gem_puzzle.py                                                     *)
(***************************************************************************)

\* Mutant of GemPuzzleState: the length of the list is not checked.
GemPuzzleStateNoShapeCheck(tile_list) ==
    LET size == IntSqrt(Len(tile_list))
        blank_value == size * size
        blank_pos == IF Contains(tile_list, blank_value)
                     THEN IndexOf(tile_list, blank_value)
                     ELSE -1
    IN  IF blank_pos = -1
        THEN [error |-> "State should contain max value indicating the blank tile's position."]
        ELSE [size |-> size, tile_list |-> tile_list, blank_pos |-> blank_pos]

\* What GemPuzzleState(tile_list) does: a state, or a raised ValueError.
GemPuzzleState(tile_list) ==
    LET size == IntSqrt(Len(tile_list))
        blank_value == size * size
        blank_pos == IF Contains(tile_list, blank_value)
                     THEN IndexOf(tile_list, blank_value)
                     ELSE -1
    IN  IF Len(tile_list) # size * size
        THEN [error |-> "Tile list size should be a perfect square."]
        ELSE IF blank_pos = -1
        THEN [error |-> "State should contain max value indicating the blank tile's position."]
        ELSE [size |-> size, tile_list |-> tile_list, blank_pos |-> blank_pos]

IsError(r) == "error" \in DOMAIN r

\* Mutant of delta: the move up comes first.
DeltaUpFirst == << <<-1, 0>>, <<0, 1>>, <<1, 0>>, <<0, -1>> >>

\* Mutant of delta: the blank only moves right and down.
DeltaRightDownOnly == << <<0, 1>>, <<1, 0>>, <<0, 1>>, <<1, 0>> >>

\* delta = [(0, 1), (1, 0), (0, -1), (-1, 0)]
delta == << <<0, 1>>, <<1, 0>>, <<0, -1>>, <<-1, 0>> >>

\* Mutant of SuccessorFor: the blank is never written to its new cell.
SuccessorForNoBlankWrite(s, k) ==
    LET row == (s.blank_pos \div s.size) + delta[k][1]
        col == (s.blank_pos % s.size) + delta[k][2]
        new_blank_pos == row * s.size + col
        copied == s.tile_list
        first_write == [copied EXCEPT ![s.blank_pos + 1] = copied[new_blank_pos + 1]]
    IN  IF 0 <= row /\ row < s.size /\ 0 <= col /\ col < s.size
        THEN << [size |-> s.size, tile_list |-> first_write,
                 blank_pos |-> new_blank_pos] >>
        ELSE << >>

\* Mutant of SuccessorFor: the bounds are checked on the flat index only, so
\* the blank wraps from the end of a row to the start of the next.
SuccessorForWrap(s, k) ==
    LET row == (s.blank_pos \div s.size) + delta[k][1]
        col == (s.blank_pos % s.size) + delta[k][2]
        new_blank_pos == row * s.size + col
        copied == s.tile_list
        first_write == [copied EXCEPT ![s.blank_pos + 1] = copied[new_blank_pos + 1]]
        second_write == [first_write EXCEPT ![new_blank_pos + 1] = s.size * s.size]
    IN  IF 0 <= new_blank_pos /\ new_blank_pos < s.size * s.size
        THEN << [size |-> s.size, tile_list |-> second_write,
                 blank_pos |-> new_blank_pos] >>
        ELSE << >>

\* Mutant of SuccessorFor: the new state keeps the blank_pos of the input.
SuccessorForStaleBlankPos(s, k) ==
    LET row == (s.blank_pos \div s.size) + delta[k][1]
        col == (s.blank_pos % s.size) + delta[k][2]
        new_blank_pos == row * s.size + col
        copied == s.tile_list
        first_write == [copied EXCEPT ![s.blank_pos + 1] = copied[new_blank_pos + 1]]
        second_write == [first_write EXCEPT ![new_blank_pos + 1] = s.size * s.size]
    IN  IF 0 <= row /\ row < s.size /\ 0 <= col /\ col < s.size
        THEN << [size |-> s.size, tile_list |-> second_write,
                 blank_pos |-> s.blank_pos] >>
        ELSE << >>

\* One iteration of the loop of get_successors: the list of the successors
\* appended for delta[k] (one state, or none when the move leaves the field).
SuccessorFor(s, k) ==
    LET row == (s.blank_pos \div s.size) + delta[k][1]
        col == (s.blank_pos % s.size) + delta[k][2]
        new_blank_pos == row * s.size + col
        copied == s.tile_list
        first_write == [copied EXCEPT ![s.blank_pos + 1] = copied[new_blank_pos + 1]]
        second_write == [first_write EXCEPT ![new_blank_pos + 1] = s.size * s.size]
    IN  IF 0 <= row /\ row < s.size /\ 0 <= col /\ col < s.size
        THEN << [size |-> s.size, tile_list |-> second_write,
                 blank_pos |-> new_blank_pos] >>
        ELSE << >>

get_successors(s) ==
    SuccessorFor(s, 1) \o SuccessorFor(s, 2) \o SuccessorFor(s, 3) \o SuccessorFor(s, 4)

(***************************************************************************)
(* utils/dataset_creation.py                                               *)
(***************************************************************************)

\* puzzle_except_empty, without the positions is_solvable never reads.
ExceptEmpty(tile_list) == SelectSeq(tile_list, LAMBDA v : v # Len(tile_list))

\* The two loops of is_solvable from entry idx on: for each entry, the number
\* of later entries smaller than it.
RECURSIVE InversionsFrom(_, _)
InversionsFrom(list, idx) ==
    IF idx > Len(list) THEN 0
    ELSE Cardinality({ j \in (idx + 1)..Len(list) : list[j] < list[idx] })
         + InversionsFrom(list, idx + 1)

\* Mutant of Inversions: the blank is not taken out of the list.
InversionsWithBlank(tile_list) == InversionsFrom(tile_list, 1)

Inversions(tile_list) == InversionsFrom(ExceptEmpty(tile_list), 1)

\* Mutant of is_solvable: the blank's row is counted from the top (1-based)
\* instead of from the bottom.
IsSolvableRowFromTop(tile_list) ==
    LET inversions == Inversions(tile_list)
        size == IntSqrt(Len(tile_list))
    IN  IF size % 2 # 0 /\ inversions % 2 = 0
        THEN TRUE
        ELSE IF size % 2 = 0
        THEN LET empty_row == (IndexOf(tile_list, Len(tile_list)) \div size) + 1
             IN  (empty_row % 2 # 0) = (inversions % 2 = 0)
        ELSE FALSE

is_solvable(tile_list) ==
    LET inversions == Inversions(tile_list)
        size == IntSqrt(Len(tile_list))
    IN  IF size % 2 # 0 /\ inversions % 2 = 0
        THEN TRUE
        ELSE IF size % 2 = 0
        THEN LET empty_row == size - (IndexOf(tile_list, Len(tile_list)) \div size)
             IN  (empty_row % 2 # 0) = (inversions % 2 = 0)
        ELSE FALSE

RECURSIVE Factorial(_)
Factorial(n) == IF n <= 1 THEN 1 ELSE n * Factorial(n - 1)

\* random.shuffle(x): for i = len - 1 down to 1, j = randbelow(i + 1) and
\* x[i], x[j] = x[j], x[i].  The draws of one call are the mixed-radix digits
\* of `draws`, a number in 0 .. len! - 1: j = draws % (i + 1), and the later
\* draws come from draws \div (i + 1).
RECURSIVE ShuffleFrom(_, _, _)
ShuffleFrom(x, i, draws) ==
    IF i < 1 THEN x
    ELSE LET j == draws % (i + 1)
         IN  ShuffleFrom([x EXCEPT ![i + 1] = x[j + 1], ![j + 1] = x[i + 1]],
                         i - 1, draws \div (i + 1))

\* generate_random_tile_list(size) when shuffle draws `draws`.
generate_random_tile_list(size, draws) ==
    ShuffleFrom(RangeList(size * size), size * size - 1, draws)

\* positions = {tile: pos2 for pos2, tile in enumerate(state2.tile_list)
\*              if tile != blank_value}; a later entry overwrites an earlier one.
PositionIn(tile_list, tile) ==
    (CHOOSE i \in 1..Len(tile_list) :
        tile_list[i] = tile /\ \A j \in (i + 1)..Len(tile_list) : tile_list[j] # tile) - 1

\* Mutant of DistSumFrom: the blank tile is counted like any other tile.
RECURSIVE DistSumCountingBlank(_, _, _)
DistSumCountingBlank(state1, state2, pos1) ==
    LET size == state1.size
        tile == state1.tile_list[pos1 + 1]
        pos2 == PositionIn(state2.tile_list, tile)
        di == Abs((pos1 \div size) - (pos2 \div size))
        dj == Abs((pos1 % size) - (pos2 % size))
    IN  IF pos1 >= Len(state1.tile_list) THEN 0
        ELSE di + dj + DistSumCountingBlank(state1, state2, pos1 + 1)

\* Mutant of DistSumFrom: the column of pos2 is taken with // instead of %.
RECURSIVE DistSumMixedColumn(_, _, _)
DistSumMixedColumn(state1, state2, pos1) ==
    LET size == state1.size
        blank_value == Len(state1.tile_list)
        tile == state1.tile_list[pos1 + 1]
        pos2 == PositionIn(state2.tile_list, tile)
        di == Abs((pos1 \div size) - (pos2 \div size))
        dj == Abs((pos1 % size) - (pos2 \div size))
    IN  IF pos1 >= Len(state1.tile_list) THEN 0
        ELSE (IF tile # blank_value THEN di + dj ELSE 0)
             + DistSumMixedColumn(state1, state2, pos1 + 1)

\* The loop of manhattan_distance over pos1 = from .. len - 1 (0-based).
RECURSIVE DistSumFrom(_, _, _)
DistSumFrom(state1, state2, pos1) ==
    LET size == state1.size
        blank_value == Len(state1.tile_list)
        tile == state1.tile_list[pos1 + 1]
        pos2 == PositionIn(state2.tile_list, tile)
        di == Abs((pos1 \div size) - (pos2 \div size))
        dj == Abs((pos1 % size) - (pos2 % size))
    IN  IF pos1 >= Len(state1.tile_list) THEN 0
        ELSE (IF tile # blank_value THEN di + dj ELSE 0)
             + DistSumFrom(state1, state2, pos1 + 1)

manhattan_distance(state1, state2) == DistSumFrom(state1, state2, 0)

get_manhattan_distance(tile_list) ==
    manhattan_distance(GemPuzzleState(tile_list),
                       GemPuzzleState(RangeList(Len(tile_list))))

(***************************************************************************)
(* The puzzle as a state machine: a state is constructed from a tile list, *)
(* get_successors expands it, and a caller (a search algorithm) continues  *)
(* from one of the returned states.                                        *)
(***************************************************************************)

\* massive_test is not running.
HarnessIdle ==
    /\ corpus = << >>
    /\ task_num = 0
    /\ stat = << >>
    /\ pc = "idle"
    /\ result = << >>
    /\ outcomes = << >>

\* No comparison of states is under way.
EqIdle ==
    /\ other = Unconstructed
    /\ hash_seed = 0
    /\ cmp = NotCalled

\* No object has been allocated.
HeapIdle ==
    /\ heap = [lists |-> << >>, objects |-> << >>]
    /\ returned = << >>
    /\ calls = 0

\* generate_tasks is not running.
GenIdle ==
    /\ tasks_file = << >>
    /\ write_buffer = << >>
    /\ old_content = << >>
    /\ number_of_tasks = 0
    /\ gen_size = 0
    /\ gen_tile_list = << >>
    /\ written = 0
    /\ gen_pc = "idle"
    /\ last_rejected = << >>

\* Nothing but the puzzle functions is in use.
OthersIdle == HarnessIdle /\ EqIdle /\ HeapIdle /\ GenIdle

\* Board sizes whose configurations are explored exhaustively.
Sizes == {2, 3}

\* The canonical goal of a size: GemPuzzleState(list(range(1, size*size + 1))).
CanonicalGoal(size) == GemPuzzleState(RangeList(size * size))

\* The set of the elements of a list.
Range(list) == { list[k] : k \in 1..Len(list) }

\* Calling get_successors on the current state.
Expand ==
    /\ successors = << >>
    /\ successors' = get_successors(state)
    /\ UNCHANGED <<arg, state, goal_state, moves, goal_dist, solvable, h>>
    /\ UNCHANGED <<harness_vars, eq_vars, heap_vars, gen_vars>>

\* The caller moves on to one of the states get_successors returned and
\* expands it in turn.
Step ==
    /\ \E k \in 1..Len(successors) :
          /\ state' = successors[k]
          /\ successors' = get_successors(successors[k])
    /\ UNCHANGED <<arg, goal_state, moves, goal_dist, solvable, h>>
    /\ UNCHANGED <<harness_vars, eq_vars, heap_vars, gen_vars>>

\* The goals tried for a size: every state of size 2, the canonical goal of
\* the larger sizes.
GoalLists(size) ==
    IF size = 2
    THEN { generate_random_tile_list(size, d) : d \in 0..(Factorial(size * size) - 1) }
    ELSE { RangeList(size * size) }

\* Every state of the sizes in Sizes, as generate_random_tile_list can draw
\* it, next to each goal tried for its size.
InitAll ==
    /\ \E size \in Sizes :
          \E goal_list \in GoalLists(size) :
             \E draws \in 0..(Factorial(size * size) - 1) :
                /\ state = GemPuzzleState(generate_random_tile_list(size, draws))
                /\ goal_state = GemPuzzleState(goal_list)
    /\ successors = << >>
    /\ moves = 0
    /\ goal_dist = NotCalled
    /\ solvable = NotCalled
    /\ h = NotCalled
    /\ arg = << >>
    /\ OthersIdle

NextAll == Expand \/ Step

SpecAll == InitAll /\ [][NextAll]_vars

(***************************************************************************)
(* Walks from the canonical goal, with the number of moves counted.        *)
(***************************************************************************)

\* Largest board size walked from its goal.
MaxGoalSize == 4

\* Longest walk.
MaxMoves == 10

InitGoal ==
    /\ \E size \in 2..MaxGoalSize :
          /\ state = CanonicalGoal(size)
          /\ goal_state = CanonicalGoal(size)
    /\ successors = << >>
    /\ moves = 0
    /\ goal_dist = NotCalled
    /\ solvable = NotCalled
    /\ h = NotCalled
    /\ arg = << >>
    /\ OthersIdle

\* One move: get_successors(state), then on to one of the returned states.
Move ==
    /\ moves < MaxMoves
    /\ \E k \in 1..Len(get_successors(state)) :
          state' = get_successors(state)[k]
    /\ successors' = get_successors(state)
    /\ moves' = moves + 1
    /\ solvable' = NotCalled
    /\ h' = NotCalled
    /\ UNCHANGED <<arg, goal_state, goal_dist>>
    /\ UNCHANGED <<harness_vars, eq_vars, heap_vars, gen_vars>>

\* is_solvable(state.tile_list)
CallIsSolvable ==
    /\ solvable = NotCalled
    /\ solvable' = <<is_solvable(state.tile_list)>>
    /\ UNCHANGED <<arg, state, successors, goal_state, moves, goal_dist, h>>
    /\ UNCHANGED <<harness_vars, eq_vars, heap_vars, gen_vars>>

\* manhattan_distance(state, goal_state)
CallManhattan ==
    /\ h = NotCalled
    /\ h' = <<manhattan_distance(state, goal_state)>>
    /\ UNCHANGED <<arg, state, successors, goal_state, moves, goal_dist, solvable>>
    /\ UNCHANGED <<harness_vars, eq_vars, heap_vars, gen_vars>>

NextGoal == Move \/ CallIsSolvable

SpecGoal == InitGoal /\ [][NextGoal]_vars

(***************************************************************************)
(* The two concrete scenarios: walks from their start states, with the     *)
(* pure functions applied on the way.                                      *)
(***************************************************************************)

\* The start of scenario 1 (3x3) and of scenario 2 (2x2).
Scenario1Start == <<1, 2, 3, 4, 5, 6, 8, 7, 9>>
Scenario2Start == <<2, 1, 3, 4>>

InitScenario ==
    /\ \E tile_list \in {Scenario1Start, Scenario2Start} :
          /\ state = GemPuzzleState(tile_list)
          /\ goal_state = GemPuzzleState(RangeList(Len(tile_list)))
    /\ successors = << >>
    /\ moves = 0
    /\ goal_dist = NotCalled
    /\ solvable = NotCalled
    /\ h = NotCalled
    /\ arg = << >>
    /\ OthersIdle

NextScenario == Move \/ CallIsSolvable \/ CallManhattan

SpecScenario == InitScenario /\ [][NextScenario]_vars

(***************************************************************************)
(* The pure functions applied to every state of the sizes in Sizes, next   *)
(* to the true answer to "how many moves lie between the state and the     *)
(* goal": goal_dist, found by breadth-first search with get_successors.    *)
(***************************************************************************)

\* A tile list of at most nine tiles as one number (the tile at position p
\* is decimal digit p), so that sets of tile lists are sets of numbers.
RECURSIVE EncodeFrom(_, _)
EncodeFrom(tile_list, k) ==
    IF k > Len(tile_list) THEN 0
    ELSE tile_list[k] + 10 * EncodeFrom(tile_list, k + 1)

Encode(tile_list) == EncodeFrom(tile_list, 1)

Pow10 == <<1, 10, 100, 1000, 10000, 100000, 1000000, 10000000, 100000000>>

Digit(code, pos) == (code \div Pow10[pos + 1]) % 10

\* The position of digit v, searched from position pos on.
RECURSIVE DigitPos(_, _, _)
DigitPos(code, pos, v) ==
    IF code % 10 = v THEN pos ELSE DigitPos(code \div 10, pos + 1, v)

\* The cells next to cell b on a size x size board.
Neighbours ==
    [size \in Sizes |-> [b \in 0..(size * size - 1) |->
        { q \in 0..(size * size - 1) :
            \/ q = b + 1 /\ b % size # size - 1
            \/ q = b - 1 /\ b % size # 0
            \/ q = b + size
            \/ q = b - size }]]

\* The codes one blank move away from `code`: the blank changes place with
\* a neighbouring tile.  CodesAgree checks this against get_successors.
MoveCodes(code, size) ==
    LET b == DigitPos(code, 0, size * size)
    IN  { code + (Digit(code, q) - size * size) * (Pow10[b + 1] - Pow10[q + 1]) :
            q \in Neighbours[size][b] }

\* Breadth-first search: layers[d + 1] holds the codes first reached after d
\* moves.  A code one move from layer d lies in layer d - 1, d or d + 1, and
\* on this board never in layer d (a move changes the colour of the blank's
\* cell on the chessboard colouring), so the new layer is what is not in
\* the layer before.
RECURSIVE BfsLayers(_, _, _)
BfsLayers(layers, prev, size) ==
    LET frontier == layers[Len(layers)]
        next == { c : c \in UNION { MoveCodes(f, size) : f \in frontier } \ prev }
    IN  IF next = {} THEN layers
        ELSE BfsLayers(Append(layers, next), frontier, size)

\* The number of moves after which the search first reached `code`, looked
\* for from layer d downwards; -1 when it never did.
RECURSIVE LayerIndexFrom(_, _, _)
LayerIndexFrom(layers, code, d) ==
    IF d = 0 THEN -1
    ELSE IF code \in layers[d] THEN d - 1
    ELSE LayerIndexFrom(layers, code, d - 1)

LayerIndex(layers, code) == LayerIndexFrom(layers, code, Len(layers))

InitReach ==
    /\ \E size \in Sizes :
          \E goal_list \in GoalLists(size) :
             \E goal \in { GemPuzzleState(goal_list) } :
                \E layers \in { BfsLayers(<< {Encode(goal.tile_list)} >>, {}, size) } :
                   \E draws \in 0..(Factorial(size * size) - 1) :
                      LET tile_list == generate_random_tile_list(size, draws)
                      IN  /\ state = GemPuzzleState(tile_list)
                          /\ goal_state = goal
                          /\ goal_dist = <<LayerIndex(layers, Encode(tile_list))>>
    /\ successors = << >>
    /\ moves = 0
    /\ solvable = NotCalled
    /\ h = NotCalled
    /\ arg = << >>
    /\ OthersIdle

NextReach == CallIsSolvable \/ CallManhattan

SpecReach == InitReach /\ [][NextReach]_vars

(***************************************************************************)
(* goal_dist is exact.  The search walks get_successors moves (CodesAgree) *)
(* forwards from the goal; every move can be taken back (MovesUndone), so  *)
(* a state is as far from the goal as the goal is from it.  Both are       *)
(* checked on every state of the sizes in Sizes (once per state: where     *)
(* is_solvable has been called and manhattan_distance has not).            *)
(***************************************************************************)
CodesAgree ==
    MoveCodes(Encode(state.tile_list), state.size)
        = { Encode(t.tile_list) : t \in Range(get_successors(state)) }

MovesUndone ==
    \A t \in Range(get_successors(state)) : state \in Range(get_successors(t))

GoalDistExact ==
    (solvable # NotCalled /\ h = NotCalled) => (CodesAgree /\ MovesUndone)

\* C1: for n = 2 and n = 3 and every permutation p of 1..n*n, is_solvable(p)
\* returns True if and only if the canonical goal can be reached from p by
\* get_successors moves (goal_dist >= 0).
C1_SolvableIffGoalReachable ==
    /\ GoalDistExact
    /\ (solvable # NotCalled /\ goal_state = CanonicalGoal(state.size))
          => (solvable[1] = (goal_dist[1] >= 0))

\* C1 witness: is_solvable has answered True for a 3x3 state 25 moves from
\* the canonical goal.
C1_Witness ==
    /\ solvable = <<TRUE>>
    /\ state.size = 3
    /\ goal_state = CanonicalGoal(3)
    /\ goal_dist = <<25>>

\* C8: manhattan_distance is admissible: when goal_state can be reached
\* from state, manhattan_distance(state, goal_state) is at most the number
\* of moves of a shortest move sequence between them (sizes 2 and 3).
C8_ManhattanAdmissible ==
    /\ GoalDistExact
    /\ (h # NotCalled /\ goal_dist[1] >= 0) => (h[1] <= goal_dist[1])

\* C8 witness: manhattan_distance has returned 16 for a 3x3 state that is
\* 26 moves from the canonical goal.
C8_Witness ==
    /\ h = <<16>>
    /\ state.size = 3
    /\ goal_dist = <<26>>

Scenario1Called ==
    /\ state.tile_list = Scenario1Start
    /\ goal_state = CanonicalGoal(3)
    /\ solvable # NotCalled
    /\ h # NotCalled

\* C9 as claimed: for start [1,2,3,4,5,6,8,7,9] and goal [1,...,9],
\* is_solvable(start) returns True and manhattan_distance(start, goal) is 2.
C9_Scenario1AsClaimed ==
    Scenario1Called => (solvable[1] = TRUE /\ h[1] = 2)

\* C9 as amended: for start [1,2,3,4,5,6,8,7,9] and goal [1,...,9],
\* is_solvable(start) returns False (one inversion on an odd board) and
\* manhattan_distance(start, goal) is 2.
C9_Scenario1 ==
    Scenario1Called => (solvable[1] = FALSE /\ h[1] = 2)

\* C9 witness: both functions have been called on the start of scenario 1.
C9_Witness == Scenario1Called /\ moves = 0

\* C10: manhattan_distance is symmetric and zero on identical states:
\* manhattan_distance(A, B) = manhattan_distance(B, A) and
\* manhattan_distance(A, A) = 0.
C10_ManhattanSymmetricZero ==
    (h # NotCalled /\ solvable = NotCalled) =>
        /\ h[1] = manhattan_distance(goal_state, state)
        /\ manhattan_distance(state, state) = 0
        /\ (state = goal_state => h[1] = 0)

\* C10 witness: manhattan_distance has returned a non-zero value for two
\* different 2x2 states neither of which is the canonical goal.
C10_Witness ==
    /\ h # NotCalled
    /\ solvable = NotCalled
    /\ state.size = 2
    /\ goal_state # CanonicalGoal(2)
    /\ state # CanonicalGoal(2)
    /\ h[1] = 4

\* C2: from the canonical goal of any size n >= 2, after any sequence of
\* get_successors moves (none included), is_solvable of the tile list of
\* the state reached returns True.
C2_SolvableAlongWalksFromGoal ==
    solvable # NotCalled => solvable[1] = TRUE

\* C2 witness: is_solvable has been called on a 4x4 state ten moves into a
\* walk from the goal that has not come back to it.
C2_Witness ==
    /\ solvable = <<TRUE>>
    /\ state.size = 4
    /\ moves = 10
    /\ state # goal_state

\* The positions (1-based) where two tile lists differ.
DiffPositions(l1, l2) == { i \in 1..Len(l1) : l1[i] # l2[i] }

\* Cells p and q (0-based) are horizontally or vertically adjacent.
Adjacent(p, q, size) ==
    Abs((p \div size) - (q \div size)) + Abs((p % size) - (q % size)) = 1

\* C3: get_successors returns between 0 and 4 states; each differs from the
\* input in exactly two positions, the input's blank position and an
\* adjacent cell, whose contents are swapped; none equals the input.
C3_SuccessorsAreAdjacentSwaps ==
    successors # << >> =>
        /\ Len(successors) \in 0..4
        /\ \A k \in 1..Len(successors) :
              LET t == successors[k]
                  diff == DiffPositions(t.tile_list, state.tile_list)
                  b == state.blank_pos + 1
              IN  /\ Len(t.tile_list) = Len(state.tile_list)
                  /\ Cardinality(diff) = 2
                  /\ b \in diff
                  /\ \A q \in diff \ {b} :
                        /\ Adjacent(b - 1, q - 1, state.size)
                        /\ t.tile_list[q] = state.tile_list[b]
                        /\ t.tile_list[b] = state.tile_list[q]
                  /\ t.tile_list # state.tile_list

\* C3 witness: get_successors has returned four states for a 3x3 state
\* with the blank in the centre.
C3_Witness ==
    /\ Len(successors) = 4
    /\ state.size = 3
    /\ state.blank_pos = 4

\* C7: manhattan_distance is consistent for unit-cost moves: for every t in
\* get_successors(s), manhattan_distance(s, g) <= 1 + manhattan_distance(t, g).
C7_ManhattanConsistent ==
    \A k \in 1..Len(successors) :
        manhattan_distance(state, goal_state)
            <= 1 + manhattan_distance(successors[k], goal_state)

\* C7 witness: get_successors has returned a state strictly closer to the
\* goal than a 3x3 input that is 12 away from it.
C7_Witness ==
    /\ state.size = 3
    /\ manhattan_distance(state, goal_state) = 12
    /\ \E k \in 1..Len(successors) :
          manhattan_distance(successors[k], goal_state) = 11

(***************************************************************************)
(* The constructor applied to arbitrary tile lists.                        *)
(***************************************************************************)

\* Longest list and largest entry of the lists tried exhaustively.
MaxArgLen == 4
MaxArgValue == 5

\* All lists of a given length over 1..MaxArgValue.
ListsOfLen(len) == [1..len -> 1..MaxArgValue]

\* 3x3 lists: the goal, one with the blank value twice, one without it.
Lists9 ==
    { RangeList(9), [RangeList(9) EXCEPT ![1] = 9], [RangeList(9) EXCEPT ![9] = 1] }

InitCtor ==
    /\ arg \in (UNION { ListsOfLen(len) : len \in 0..MaxArgLen }) \cup Lists9
    /\ state = Unconstructed
    /\ successors = << >>
    /\ goal_state = Unconstructed
    /\ moves = 0
    /\ goal_dist = NotCalled
    /\ solvable = NotCalled
    /\ h = NotCalled
    /\ OthersIdle

\* GemPuzzleState(arg): the state built, or the error raised.
Construct ==
    /\ state = Unconstructed
    /\ state' = GemPuzzleState(arg)
    /\ UNCHANGED <<arg, successors, goal_state, moves, goal_dist, solvable, h>>
    /\ UNCHANGED <<harness_vars, eq_vars, heap_vars, gen_vars>>

NextCtor == Construct

SpecCtor == InitCtor /\ [][NextCtor]_vars

\* The number of times v occurs in a list.
Count(list, v) == Cardinality({ i \in 1..Len(list) : list[i] = v })

\* len(list) is a perfect square.
PerfectSquareLen(list) == IntSqrt(Len(list)) * IntSqrt(Len(list)) = Len(list)

\* C4: constructing a GemPuzzleState from a tile list of perfect-square
\* length fails with an error whenever the sentinel size*size is absent
\* from the list or occurs in it more than once.
C4_RejectsMissingOrDuplicateBlank ==
    (state # Unconstructed /\ PerfectSquareLen(arg) /\ Count(arg, Len(arg)) # 1)
        => IsError(state)

(***************************************************************************)
(* tests/lab_test.py: massive_test over a task file.                       *)
(*                                                                         *)
(* A line is a sequence of one-character strings.  The search function is  *)
(* a parameter of massive_test: what it does on a task is drawn from       *)
(* SearchOutcomes.                                                         *)
(***************************************************************************)

\* str.isspace() on the characters used here.
IsSpace(c) == c \in {" ", "\n", "\t"}

\* not line.strip()
IsBlankLine(line) == \A i \in 1..Len(line) : IsSpace(line[i])

\* line.split(): the maximal runs of characters that are not whitespace.
RECURSIVE SplitFrom(_, _, _)
SplitFrom(line, i, token) ==
    IF i > Len(line)
    THEN (IF token = << >> THEN << >> ELSE <<token>>)
    ELSE IF IsSpace(line[i])
    THEN (IF token = << >> THEN << >> ELSE <<token>>) \o SplitFrom(line, i + 1, << >>)
    ELSE SplitFrom(line, i + 1, Append(token, line[i]))

Split(line) == SplitFrom(line, 1, << >>)

Digits == <<"0", "1", "2", "3", "4", "5", "6", "7", "8", "9">>

IsDigit(c) == \E d \in 1..10 : Digits[d] = c

DigitValue(c) == (CHOOSE d \in 1..10 : Digits[d] = c) - 1

\* int(token) for a token of decimal digits; any other token used here
\* raises ValueError.
IntRaises(token) == \E i \in 1..Len(token) : ~IsDigit(token[i])

RECURSIVE IntFrom(_, _, _)
IntFrom(token, i, acc) ==
    IF i > Len(token) THEN acc
    ELSE IntFrom(token, i + 1, 10 * acc + DigitValue(token[i]))

ParseInt(token) == IntFrom(token, 1, 0)

\* list(map(int, line.split())) raises ValueError.
ParseRaises(line) ==
    LET tokens == Split(line)
    IN  \E k \in 1..Len(tokens) : IntRaises(tokens[k])

\* list(map(int, line.split()))
ParseLine(line) ==
    LET tokens == Split(line)
    IN  [k \in 1..Len(tokens) |-> ParseInt(tokens[k])]

\* The lines a task file is made of here.
SampleLines ==
    { <<"1", " ", "2", " ", "3", " ", "4", "\n">>,       \* a 2x2 task
      <<"4", " ", "1", "\t", "2", " ", "3">>,            \* a 2x2 task, last line
      <<"\n">>,                                          \* an empty line
      <<" ", " ", "\n">>,                                \* a whitespace-only line
      <<"1", " ", "2", " ", "3", "\n">>,                 \* not a perfect square
      <<"1", " ", "x", " ", "3", " ", "4", "\n">>,       \* not integers
      <<"1", " ", "2", " ", "3", " ", "3", "\n">> }      \* no blank value

\* Most lines in a task file.
MaxLines == 3

\* What last_state can be: None, an object without the attribute g, or a
\* state with g set.
NoneState == [is_none |-> TRUE]
StateWithoutG == [is_none |-> FALSE, has_g |-> FALSE]
StateWithG(g) == [is_none |-> FALSE, has_g |-> TRUE, g |-> g]

HasG(last_state) == ~last_state.is_none /\ last_state.has_g

\* What one call of the search function can do: raise an Exception (a return
\* value that is not a 4-tuple ends the same way, in the except clause),
\* raise a BaseException that is not an Exception, or return
\* (found, last_state, steps, search_tree_size).
SearchOutcomes ==
    { [kind |-> "exception"], [kind |-> "base_exception"] }
    \cup [ kind : {"return"},
           found : BOOLEAN,
           last_state : {NoneState, StateWithoutG, StateWithG(5)},
           steps : {3, 4},
           search_tree_size : {7} ]

\* A recording that puts a zero for a task whose result cannot be read.
RecordResultZeroOnError(st, o) ==
    [len |-> Append(st.len, IF o.found /\ HasG(o.last_state) THEN o.last_state.g ELSE 0),
     st_size |-> Append(st.st_size, o.search_tree_size),
     steps |-> Append(st.steps, o.steps)]

\* Mutant of RecordResult: last_state.g is read before found is tested.
RecordResultAlwaysReadsG(st, o) ==
    IF HasG(o.last_state)
    THEN [len |-> Append(st.len, IF o.found THEN o.last_state.g ELSE 0),
          st_size |-> Append(st.st_size, o.search_tree_size),
          steps |-> Append(st.steps, o.steps)]
    ELSE st

\* The body of the try block after the search function has returned o: the
\* lists after it, the appends made before an AttributeError included.
RecordResult(st, o) ==
    IF o.found
    THEN IF HasG(o.last_state)
         THEN [len |-> Append(st.len, o.last_state.g),
               st_size |-> Append(st.st_size, o.search_tree_size),
               steps |-> Append(st.steps, o.steps)]
         ELSE st       \* last_state.g raises before anything is appended
    ELSE [len |-> Append(st.len, 0),
          st_size |-> Append(st.st_size, o.search_tree_size),
          steps |-> Append(st.steps, o.steps)]

PuzzleIdle ==
    /\ arg = << >>
    /\ state = Unconstructed
    /\ successors = << >>
    /\ goal_state = Unconstructed
    /\ moves = 0
    /\ goal_dist = NotCalled
    /\ solvable = NotCalled
    /\ h = NotCalled

\* massive_test has opened a task file of at most MaxLines lines.
InitHarness ==
    /\ corpus \in UNION { [1..n -> SampleLines] : n \in 0..MaxLines }
    /\ task_num = 0
    /\ stat = [len |-> << >>, st_size |-> << >>, steps |-> << >>]
    /\ pc = "loop"
    /\ result = << >>
    /\ outcomes = << >>
    /\ PuzzleIdle
    /\ EqIdle
    /\ HeapIdle
    /\ GenIdle

AtLine == pc = "loop" /\ task_num < Len(corpus)

Line == corpus[task_num + 1]

\* The loop body on an empty or whitespace-only line: continue.
SkipBlankLine ==
    /\ AtLine
    /\ IsBlankLine(Line)
    /\ task_num' = task_num + 1
    /\ outcomes' = Append(outcomes, [kind |-> "blank"])
    /\ UNCHANGED <<corpus, stat, pc, result>>
    /\ UNCHANGED <<puzzle_vars, eq_vars, heap_vars, gen_vars>>

\* The loop body on a line int() cannot parse: the ValueError leaves
\* massive_test (line 61 is outside the try block).
ParseFails ==
    /\ AtLine
    /\ ~IsBlankLine(Line)
    /\ ParseRaises(Line)
    /\ pc' = "raised"
    /\ outcomes' = Append(outcomes, [kind |-> "parse_error"])
    /\ UNCHANGED <<corpus, task_num, stat, result>>
    /\ UNCHANGED <<puzzle_vars, eq_vars, heap_vars, gen_vars>>

\* GemPuzzleState(start_tile_list) or GemPuzzleState(goal_tile_list) raises.
ConstructRaises(start_tile_list) ==
    IF IsError(GemPuzzleState(start_tile_list))
    THEN TRUE
    ELSE IsError(GemPuzzleState(RangeList(Len(start_tile_list))))

\* The loop body on a line GemPuzzleState rejects: the ValueError leaves
\* massive_test (lines 63-64 are outside the try block).
ConstructFails ==
    /\ AtLine
    /\ ~IsBlankLine(Line)
    /\ ~ParseRaises(Line)
    /\ ConstructRaises(ParseLine(Line))
    /\ pc' = "raised"
    /\ outcomes' = Append(outcomes, [kind |-> "construct_error"])
    /\ UNCHANGED <<corpus, task_num, stat, result>>
    /\ UNCHANGED <<puzzle_vars, eq_vars, heap_vars, gen_vars>>

\* The loop body on a task: the states are built, the search function is
\* called and does o.
RunTask ==
    /\ AtLine
    /\ ~IsBlankLine(Line)
    /\ ~ParseRaises(Line)
    /\ ~ConstructRaises(ParseLine(Line))
    /\ arg' = ParseLine(Line)
    /\ state' = GemPuzzleState(ParseLine(Line))
    /\ goal_state' = GemPuzzleState(RangeList(Len(ParseLine(Line))))
    /\ \E o \in SearchOutcomes :
          /\ outcomes' = Append(outcomes, o)
          /\ IF o.kind = "base_exception"
             THEN pc' = "raised" /\ UNCHANGED <<task_num, stat>>
             ELSE IF o.kind = "exception"
             THEN task_num' = task_num + 1 /\ UNCHANGED <<pc, stat>>
             ELSE /\ stat' = RecordResult(stat, o)
                  /\ task_num' = task_num + 1
                  /\ UNCHANGED pc
    /\ UNCHANGED <<corpus, result>>
    /\ UNCHANGED <<successors, moves, goal_dist, solvable, h>>
    /\ UNCHANGED <<eq_vars, heap_vars, gen_vars>>

\* After the last line: return {k: np.array(v) for k, v in stat.items()}
\* (the arrays hold the elements of the lists, in their order).
ReturnStat ==
    /\ pc = "loop"
    /\ task_num = Len(corpus)
    /\ pc' = "returned"
    /\ result' = [k \in {"len", "st_size", "steps"} |-> stat[k]]
    /\ UNCHANGED <<corpus, task_num, stat, outcomes>>
    /\ UNCHANGED <<puzzle_vars, eq_vars, heap_vars, gen_vars>>

NextHarness == SkipBlankLine \/ ParseFails \/ ConstructFails \/ RunTask \/ ReturnStat

SpecHarness == InitHarness /\ [][NextHarness]_vars

(***************************************************************************)
(* Claims about massive_test.                                              *)
(***************************************************************************)

\* C5: massive_test never aborts the pass because of an error raised while
\* one task is processed (parsing the line, building the states, searching):
\* the only way out of the loop other than the return is a BaseException of
\* the search function that is not an Exception.
C5_NeverAbortsOnTaskError ==
    pc = "raised" => outcomes[Len(outcomes)].kind = "base_exception"

\* The task of an outcome was searched and recorded without error.
Completed(o) ==
    o.kind = "return" /\ (o.found => HasG(o.last_state))

\* The statistics that the completed tasks of a log of outcomes call for.
RECURSIVE ExpectedStat(_)
ExpectedStat(log) ==
    IF log = << >>
    THEN [len |-> << >>, st_size |-> << >>, steps |-> << >>]
    ELSE LET before == ExpectedStat(SubSeq(log, 1, Len(log) - 1))
             o == log[Len(log)]
         IN  IF Completed(o)
             THEN [len |-> Append(before.len, IF o.found THEN o.last_state.g ELSE 0),
                   st_size |-> Append(before.st_size, o.search_tree_size),
                   steps |-> Append(before.steps, o.steps)]
             ELSE before

\* C6: the three lists always have the same length, and when massive_test
\* returns, every line has been processed, the blank lines are the skipped
\* ones, and the three sequences hold one element for each task that was
\* searched and recorded without error, in corpus order, and nothing for a
\* task whose search raised or for a blank line.
C6_StatAlignedOnePerCompletedTask ==
    /\ pc \in {"loop", "returned", "raised"} =>
          /\ Len(stat.len) = Len(stat.st_size)
          /\ Len(stat.len) = Len(stat.steps)
    /\ pc = "returned" =>
          /\ Len(outcomes) = Len(corpus)
          /\ \A i \in 1..Len(corpus) :
                (outcomes[i].kind = "blank") = IsBlankLine(corpus[i])
          /\ result = ExpectedStat(outcomes)
          /\ Len(result.len) = Cardinality({ i \in 1..Len(outcomes) : Completed(outcomes[i]) })

\* A pass has returned after a task whose search raised, a task whose
\* recording failed and a task that was recorded.
C6_Witness ==
    /\ pc = "returned"
    /\ Len(corpus) = MaxLines
    /\ outcomes[1].kind = "exception"
    /\ outcomes[2].kind = "return" /\ outcomes[2].found /\ outcomes[2].last_state = NoneState
    /\ outcomes[3].kind = "return" /\ outcomes[3].found /\ outcomes[3].last_state = StateWithG(5)
    /\ result = [len |-> <<5>>, st_size |-> <<7>>, steps |-> <<outcomes[3].steps>>]

(***************************************************************************)
(* The constructor on permutations and on lists of every length.           *)
(***************************************************************************)

\* Lists whose length is between the squares, and just above 9.
NonSquareLists == { RangeList(len) : len \in {5, 6, 7, 8, 10} }

\* The argument is any permutation of sizes 2 and 3, any short list, or a
\* longer list whose length is not a perfect square.
InitShape ==
    /\ \/ \E size \in Sizes : \E draws \in 0..(Factorial(size * size) - 1) :
             arg = generate_random_tile_list(size, draws)
       \/ arg \in UNION { ListsOfLen(len) : len \in 0..MaxArgLen }
       \/ arg \in NonSquareLists
    /\ state = Unconstructed
    /\ successors = << >>
    /\ goal_state = Unconstructed
    /\ moves = 0
    /\ goal_dist = NotCalled
    /\ solvable = NotCalled
    /\ h = NotCalled
    /\ OthersIdle

NextShape == Construct

SpecShape == InitShape /\ [][NextShape]_vars

\* The list holds each of 1..len(list) once.
IsPermutation(list) == Range(list) = 1..Len(list)

\* C11: GemPuzzleState on a list whose length is not a perfect square
\* raises; on a permutation of 1..n*n, n >= 2, it builds a state with
\* size = n, the list as tile_list and blank_pos the index of n*n.
C11_ShapeCheckedAndBlankFound ==
    state # Unconstructed =>
        /\ ~PerfectSquareLen(arg) => IsError(state)
        /\ (PerfectSquareLen(arg) /\ Len(arg) >= 4 /\ IsPermutation(arg)) =>
              /\ ~IsError(state)
              /\ state.size >= 2
              /\ state.size * state.size = Len(arg)
              /\ state.tile_list = arg
              /\ state.blank_pos \in 0..(Len(arg) - 1)
              /\ arg[state.blank_pos + 1] = Len(arg)

\* A 3x3 permutation with the blank in the centre has been constructed.
C11_Witness ==
    /\ state # Unconstructed
    /\ ~IsError(state)
    /\ IsPermutation(arg)
    /\ state.size = 3
    /\ state.blank_pos = 4
    /\ arg[5] = 9

(***************************************************************************)
(* utils/gem_puzzle.py: GemPuzzleState.__eq__ and GemPuzzleState.__hash__. *)
(*                                                                         *)
(* hash(str) is CPython's keyed hash of the characters of the string: a    *)
(* 64-bit integer fixed by the characters and by the seed the process      *)
(* started with (PYTHONHASHSEED).  The integer is kept symbolic, as the     *)
(* seed together with the characters it is computed from: two hashes are   *)
(* equal when seed and characters are, and the strings of distinct tile    *)
(* lists get distinct hashes, as they do in the interpreter.               *)
(***************************************************************************)

\* str(n) for an integer n >= 0.
RECURSIVE StrInt(_)
StrInt(n) ==
    IF n < 10 THEN <<Digits[n + 1]>>
    ELSE StrInt(n \div 10) \o <<Digits[(n % 10) + 1]>>

\* str(list): "[" + ", ".join(repr(v) for v in list) + "]"
RECURSIVE StrItemsFrom(_, _)
StrItemsFrom(list, i) ==
    IF i > Len(list) THEN << >>
    ELSE (IF i > 1 THEN <<",", " ">> ELSE << >>) \o StrInt(list[i])
         \o StrItemsFrom(list, i + 1)

Str(list) == <<"[">> \o StrItemsFrom(list, 1) \o <<"]">>

\* hash(chars) in a process started with hash_seed.
HashStr(chars) == [seed |-> hash_seed, chars |-> chars]

\* GemPuzzleState.__hash__
__hash__(self) == HashStr(Str(self.tile_list))

\* Mutant of __eq__: every attribute of the two objects is compared.
EqAllAttributes(self, other_state) == self = other_state

\* GemPuzzleState.__eq__
__eq__(self, other_state) ==
    __hash__(self) = __hash__(other_state) /\ self.tile_list = other_state.tile_list

\* A state with the attributes a search algorithm attaches to it.
WithCost(s, g, parent) ==
    [size |-> s.size, tile_list |-> s.tile_list, blank_pos |-> s.blank_pos,
     g |-> g, parent |-> parent]

\* Most moves made on the two states together.
MaxEqMoves == 4

\* The tile lists the two states are constructed from.
EqLists == GoalLists(2) \cup {RangeList(9), Scenario1Start}

InitEq ==
    /\ \E list1 \in EqLists, list2 \in EqLists :
          /\ arg = list1
          /\ state = GemPuzzleState(list1)
          /\ other = GemPuzzleState(list2)
    /\ hash_seed \in {0, 1}
    /\ cmp = NotCalled
    /\ successors = << >>
    /\ goal_state = Unconstructed
    /\ moves = 0
    /\ goal_dist = NotCalled
    /\ solvable = NotCalled
    /\ h = NotCalled
    /\ HarnessIdle
    /\ HeapIdle
    /\ GenIdle

\* state is replaced by one of get_successors(state).
MoveSelf ==
    /\ moves < MaxEqMoves
    /\ \E k \in 1..Len(get_successors(state)) : state' = get_successors(state)[k]
    /\ successors' = get_successors(state)
    /\ moves' = moves + 1
    /\ cmp' = NotCalled
    /\ UNCHANGED <<arg, goal_state, goal_dist, solvable, h, other, hash_seed>>
    /\ UNCHANGED <<harness_vars, heap_vars, gen_vars>>

\* other is replaced by one of get_successors(other).
MoveOther ==
    /\ moves < MaxEqMoves
    /\ \E k \in 1..Len(get_successors(other)) : other' = get_successors(other)[k]
    /\ moves' = moves + 1
    /\ cmp' = NotCalled
    /\ UNCHANGED <<arg, state, successors, goal_state, goal_dist, solvable, h, hash_seed>>
    /\ UNCHANGED <<harness_vars, heap_vars, gen_vars>>

\* A search algorithm sets g and parent on state.  After a move, state is
\* the object get_successors put in the list successors, so the attributes
\* show in that element of the list too.
AttachCost ==
    /\ \E g \in {4, 7} : state' = WithCost(state, g, "node")
    /\ state' # state
    /\ successors' = [k \in 1..Len(successors) |->
                         IF successors[k] = state THEN state' ELSE successors[k]]
    /\ cmp' = NotCalled
    /\ UNCHANGED <<arg, goal_state, moves, goal_dist, solvable, h, other, hash_seed>>
    /\ UNCHANGED <<harness_vars, heap_vars, gen_vars>>

\* state == other, hash(state), hash(other)
Compare ==
    /\ cmp = NotCalled
    /\ cmp' = << [eq |-> __eq__(state, other),
                  hash_self |-> __hash__(state),
                  hash_other |-> __hash__(other)] >>
    /\ UNCHANGED <<puzzle_vars, other, hash_seed>>
    /\ UNCHANGED <<harness_vars, heap_vars, gen_vars>>

NextEq == MoveSelf \/ MoveOther \/ AttachCost \/ Compare

SpecEq == InitEq /\ [][NextEq]_vars

\* Two lists hold the same elements in the same order.
SameTiles(l1, l2) ==
    Len(l1) = Len(l2) /\ \A i \in 1..Len(l1) : l1[i] = l2[i]

\* C12: two states compare equal exactly when their tile lists are equal
\* element by element, and equal states have equal hashes, however the
\* states were obtained and whatever g and parent they carry.
C12_EqualIffSameTiles ==
    cmp # NotCalled =>
        /\ cmp[1].eq = SameTiles(state.tile_list, other.tile_list)
        /\ cmp[1].eq => cmp[1].hash_self = cmp[1].hash_other

\* A state that carries g, reached by moves, equals a state without g that
\* was reached by another move.
C12_Witness ==
    /\ cmp # NotCalled
    /\ cmp[1].eq
    /\ moves = MaxEqMoves
    /\ "g" \in DOMAIN state
    /\ "g" \notin DOMAIN other
    /\ state.tile_list # arg
    /\ state.size = 3

(***************************************************************************)
(* Claims about the states get_successors produces.                        *)
(***************************************************************************)

\* s is a well-formed state of size n.
WellFormed(s, n) ==
    /\ DOMAIN s = {"size", "tile_list", "blank_pos"}
    /\ s.size = n
    /\ Len(s.tile_list) = n * n
    /\ IsPermutation(s.tile_list)
    /\ Count(s.tile_list, n * n) = 1
    /\ s.blank_pos \in 0..(n * n - 1)
    /\ s.tile_list[s.blank_pos + 1] = n * n
    /\ s.blank_pos = IndexOf(s.tile_list, n * n)

\* C13: every state reached by get_successors calls from a state constructed
\* from a permutation of 1..n*n has size n, a tile list that is a permutation
\* of 1..n*n with n*n in it once, and blank_pos the index of n*n; the states
\* get_successors returns for it have the same size and are well formed too.
C13_ReachableStatesWellFormed ==
    /\ state.size \in Sizes
    /\ WellFormed(state, state.size)
    /\ \A k \in 1..Len(successors) : WellFormed(successors[k], state.size)

\* A 3x3 state whose blank is in the top-left corner, away from the goal,
\* has been reached and expanded.
C13_Witness ==
    /\ state.size = 3
    /\ state.blank_pos = 0
    /\ state.tile_list[9] # 9
    /\ Len(successors) = 2
    /\ successors[2].blank_pos = 3

(***************************************************************************)
(* utils/gem_puzzle.py: get_successors on objects.                         *)
(*                                                                         *)
(* A GemPuzzleState object holds a reference to a list object; the heap    *)
(* numbers the list objects and the state objects, and shows which writes  *)
(* of get_successors reach which list.                                     *)
(***************************************************************************)

\* Mutant of CopyList: no copy is made, the same list object is returned.
CopyListAlias(hp, list_id) == [lists |-> hp.lists, id |-> list_id]

\* copy.copy(list): a new list object with the same elements.
CopyList(hp, list_id) ==
    [lists |-> Append(hp.lists, hp.lists[list_id]), id |-> Len(hp.lists) + 1]

\* The state an object stands for: its attributes, the list read through
\* the reference.
Deref(hp, obj) ==
    [size |-> hp.objects[obj].size,
     tile_list |-> hp.lists[hp.objects[obj].tile_list],
     blank_pos |-> hp.objects[obj].blank_pos]

\* The iterations delta[k], delta[k+1], ... of the loop of get_successors
\* on the object obj: the heap and the list successors after them.
RECURSIVE SuccessorsLoop(_, _, _, _)
SuccessorsLoop(hp, obj, k, succ) ==
    IF k > Len(delta) THEN [heap |-> hp, successors |-> succ]
    ELSE
    LET s == hp.objects[obj]
        row == (s.blank_pos \div s.size) + delta[k][1]
        col == (s.blank_pos % s.size) + delta[k][2]
        new_blank_pos == row * s.size + col
        copied == CopyList(hp, s.tile_list)
        new_state == [size |-> s.size, tile_list |-> copied.id,
                      blank_pos |-> new_blank_pos]
        first_write == [copied.lists EXCEPT ![copied.id][s.blank_pos + 1] =
                                               copied.lists[copied.id][new_blank_pos + 1]]
        second_write == [first_write EXCEPT ![copied.id][new_blank_pos + 1] = s.size * s.size]
    IN  IF 0 <= row /\ row < s.size /\ 0 <= col /\ col < s.size
        THEN SuccessorsLoop([lists |-> second_write,
                             objects |-> Append(hp.objects, new_state)],
                            obj, k + 1, Append(succ, Len(hp.objects) + 1))
        ELSE SuccessorsLoop(hp, obj, k + 1, succ)

\* get_successors(obj) on the heap hp.
GetSuccessorsOnHeap(hp, obj) == SuccessorsLoop(hp, obj, 1, << >>)

\* Most get_successors calls on the heap.
MaxCalls == 3

\* The tile lists of the first object.
HeapLists == GoalLists(2) \cup {RangeList(9), Scenario1Start, <<1, 2, 3, 4, 9, 6, 7, 8, 5>>}

\* One state has been constructed from a list: the object refers to the
\* list it was given.
InitHeap ==
    /\ arg \in HeapLists
    /\ heap = [lists |-> <<arg>>,
               objects |-> << [size |-> GemPuzzleState(arg).size, tile_list |-> 1,
                               blank_pos |-> GemPuzzleState(arg).blank_pos] >>]
    /\ returned = << >>
    /\ calls = 0
    /\ state = GemPuzzleState(arg)
    /\ successors = << >>
    /\ goal_state = Unconstructed
    /\ moves = 0
    /\ goal_dist = NotCalled
    /\ solvable = NotCalled
    /\ h = NotCalled
    /\ HarnessIdle
    /\ EqIdle
    /\ GenIdle

\* get_successors is called on an object of the heap: the first state, or a
\* state an earlier call returned.
CallGetSuccessors ==
    /\ calls < MaxCalls
    /\ \E obj \in 1..Len(heap.objects) :
          LET done == GetSuccessorsOnHeap(heap, obj)
          IN  /\ heap' = done.heap
              /\ returned' = done.successors
              /\ state' = Deref(heap, obj)
              /\ successors' = [k \in 1..Len(done.successors) |->
                                   Deref(done.heap, done.successors[k])]
    /\ calls' = calls + 1
    /\ UNCHANGED <<arg, goal_state, moves, goal_dist, solvable, h>>
    /\ UNCHANGED <<harness_vars, eq_vars, gen_vars>>

NextHeap == CallGetSuccessors

SpecHeap == InitHeap /\ [][NextHeap]_vars

\* The list objects the state objects of a heap refer to.
ListOf(hp, obj) == hp.objects[obj].tile_list

\* C14: a get_successors call changes no object that existed before it (the
\* input, the states earlier calls returned, their siblings): each keeps
\* its size, its blank_pos and the contents of its tile list.  The states
\* it returns are new objects with new lists of their own, and hold the
\* successors of the input as it was before the call.
C14_InputAndSiblingsUnchanged ==
    [][ /\ \A obj \in 1..Len(heap.objects) :
              /\ heap'.objects[obj] = heap.objects[obj]
              /\ Deref(heap', obj) = Deref(heap, obj)
        /\ \A i \in 1..Len(returned') :
              /\ returned'[i] > Len(heap.objects)
              /\ ListOf(heap', returned'[i]) > Len(heap.lists)
              /\ \A obj \in 1..Len(heap'.objects) :
                    obj # returned'[i] => ListOf(heap', obj) # ListOf(heap', returned'[i])
        /\ successors' = get_successors(state')
      ]_vars

\* get_successors has been called on the first state, on a state that call
\* returned and on a state the second call returned; the first state and
\* its first successor are as they were.
C14_Witness ==
    /\ calls = 3
    /\ Len(returned) = 4
    /\ Len(heap.objects) = 1 + 2 + 3 + 4
    /\ Deref(heap, 1) = GemPuzzleState(arg)
    /\ Deref(heap, 2) = get_successors(GemPuzzleState(arg))[1]
    /\ state = Deref(heap, 5)

\* The cells the blank of s can move to, in the order right, down, left,
\* up, as [row, col], the cells outside the field left out.
BlankMoves(s) ==
    LET row == s.blank_pos \div s.size
        col == s.blank_pos % s.size
        InField(cell) ==
            /\ cell.row >= 0 /\ cell.row <= s.size - 1
            /\ cell.col >= 0 /\ cell.col <= s.size - 1
    IN  SelectSeq(<< [row |-> row, col |-> col + 1],
                    [row |-> row + 1, col |-> col],
                    [row |-> row, col |-> col - 1],
                    [row |-> row - 1, col |-> col] >>, InField)

\* The tile list of s with the blank and the tile at position pos swapped.
Swapped(s, pos) ==
    [i \in 1..Len(s.tile_list) |->
        IF i = pos + 1 THEN s.tile_list[s.blank_pos + 1]
        ELSE IF i = s.blank_pos + 1 THEN s.tile_list[pos + 1]
        ELSE s.tile_list[i]]

\* The number of borders of the field the blank of s lies on.
BordersTouched(s) ==
    LET row == s.blank_pos \div s.size
        col == s.blank_pos % s.size
    IN  Cardinality({ b \in {"top", "bottom", "left", "right"} :
            \/ b = "top" /\ row = 0
            \/ b = "bottom" /\ row = s.size - 1
            \/ b = "left" /\ col = 0
            \/ b = "right" /\ col = s.size - 1 })

\* C15: get_successors returns one state per move of the blank that stays
\* in the field and nothing else, in the order right, down, left, up: two
\* states when the blank is in a corner, three on an edge, four inside; for
\* size 2 with the blank bottom-right, the left move then the up move.
C15_SuccessorsInFixedOrder ==
    successors # << >> =>
        /\ Len(successors) = Len(BlankMoves(state))
        /\ \A k \in 1..Len(successors) :
              LET pos == BlankMoves(state)[k].row * state.size + BlankMoves(state)[k].col
              IN  /\ successors[k].blank_pos = pos
                  /\ successors[k].tile_list = Swapped(state, pos)
                  /\ successors[k].size = state.size
        /\ Len(successors) = 4 - BordersTouched(state)
        /\ (state.size = 2 /\ state.blank_pos = 3) =>
              /\ Len(successors) = 2
              /\ successors[1].blank_pos = 2
              /\ successors[2].blank_pos = 1

\* get_successors has returned the down, left and up moves of a 3x3 state
\* whose blank is in the middle of the right edge.
C15_Witness ==
    /\ state.size = 3
    /\ state.blank_pos = 5
    /\ Len(successors) = 3
    /\ successors[1].blank_pos = 8
    /\ successors[2].blank_pos = 4
    /\ successors[3].blank_pos = 2

\* C18: every move can be undone: for every t that get_successors(s)
\* returned, a state equal to s (by __eq__, and with the blank_pos and size
\* of s) is in get_successors(t).  s ranges over every state of the sizes
\* in Sizes, so the moves between them go both ways.
C18_MovesReversible ==
    \A k \in 1..Len(successors) :
       \E j \in 1..Len(get_successors(successors[k])) :
          LET u == get_successors(successors[k])[j]
          IN  /\ u.blank_pos = state.blank_pos
              /\ u.size = state.size
              /\ __eq__(u, state)

\* A 3x3 state away from the goal has been expanded, and its third
\* successor returns it as its first.
C18_Witness ==
    /\ state.size = 3
    /\ state.blank_pos = 4
    /\ state.tile_list[1] = 9 - 1
    /\ Len(successors) = 4
    /\ get_successors(successors[3])[1] = state

\* The search function has just returned o for the line read in this step.
JustReturned(o) ==
    /\ outcomes' = Append(outcomes, o)
    /\ o.kind = "return"

\* C17: when the search function returns (found, last_state, steps,
\* tree_size), massive_test appends to "len" last_state.g if found is true
\* and 0.0 if it is false, and tree_size to "st_size" and steps to "steps",
\* all three at the same index; when found is false the value is recorded
\* whatever last_state is (None, or an object without g): it is not read.
C17_RecordsReturnedValues ==
    [][ \A o \in SearchOutcomes :
           (JustReturned(o) /\ (o.found => HasG(o.last_state))) =>
              /\ Len(stat.len) = Len(stat.st_size)
              /\ Len(stat.len) = Len(stat.steps)
              /\ stat'.len = Append(stat.len, IF o.found THEN o.last_state.g ELSE 0)
              /\ stat'.st_size = Append(stat.st_size, o.search_tree_size)
              /\ stat'.steps = Append(stat.steps, o.steps)
      ]_vars

\* A found task with g = 5 and 3 steps, then a task not found whose
\* last_state is None, with 4 steps, have been recorded.
C17_Witness ==
    /\ Len(outcomes) = 2
    /\ outcomes[1].kind = "return" /\ outcomes[1].found
    /\ outcomes[2].kind = "return" /\ ~outcomes[2].found
    /\ outcomes[2].last_state = NoneState
    /\ stat = [len |-> <<5, 0>>, st_size |-> <<7, 7>>, steps |-> <<3, 4>>]

(***************************************************************************)
(* utils/dataset_creation.py: is_acceptable_task and generate_tasks.       *)
(*                                                                         *)
(* The file is the sequence of its characters.  generate_tasks opens it    *)
(* for appending, and for each task draws candidates until one is          *)
(* acceptable, which it writes as a line.  tasks_file.write() puts the     *)
(* line in the buffer of the file object; the few lines of one call stay   *)
(* there (they are far shorter than the buffer) until the with block       *)
(* closes the file, which appends them to the file.                        *)
(***************************************************************************)

\* The default of the parameter max_distance of is_acceptable_task.
max_distance == 12

\* Mutant of is_acceptable_task: the distance is not tested.
IsAcceptableIfSolvable(tile_list) == is_solvable(tile_list)

\* is_acceptable_task(tile_list)
is_acceptable_task(tile_list) ==
    IF ~is_solvable(tile_list) THEN FALSE
    ELSE IF get_manhattan_distance(tile_list) > max_distance THEN FALSE
    ELSE TRUE

\* " ".join(map(str, tile_list))
RECURSIVE JoinFrom(_, _)
JoinFrom(tile_list, i) ==
    IF i > Len(tile_list) THEN << >>
    ELSE (IF i > 1 THEN <<" ">> ELSE << >>) \o StrInt(tile_list[i])
         \o JoinFrom(tile_list, i + 1)

\* The characters written for a task: " ".join(map(str, tile_list)) + "\n"
TaskRecord(tile_list) == JoinFrom(tile_list, 1) \o <<"\n">>

\* Most tasks asked for.
MaxTasks == 2

\* What the file can hold before the call: nothing, a task, a task whose
\* line is not ended.
OldContents ==
    { << >>,
      <<"1", " ", "2", " ", "3", " ", "4", "\n">>,
      <<"4", " ", "1", " ", "2", " ", "3">> }

\* The draws of shuffle tried for a size: all of them for sizes 1 and 2; for
\* size 3 draws that give lists that are not solvable (distance 15, 12 and
\* 8), solvable and too far (distance 16 and 13), and solvable within the
\* distance (12, 11, 8 and 0, the goal itself).
GenDraws(size) ==
    IF size <= 2 THEN 0..(Factorial(size * size) - 1)
    ELSE {0, 62, 1508, 1, 65, 34, 69, 1797, Factorial(size * size) - 1}

\* generate_tasks(task_file_path, number_of_tasks, size) has opened the file.
InitGen ==
    /\ old_content \in OldContents
    /\ tasks_file = old_content
    /\ write_buffer = << >>
    /\ number_of_tasks \in 0..MaxTasks
    /\ gen_size \in {1, 2, 3}
    /\ gen_tile_list = << >>
    /\ written = 0
    /\ gen_pc = "draw"
    /\ last_rejected = << >>
    /\ PuzzleIdle
    /\ HarnessIdle
    /\ EqIdle
    /\ HeapIdle

\* tile_list = generate_random_tile_list(size), at the start of an
\* iteration of the for loop.
Draw ==
    /\ gen_pc = "draw"
    /\ written < number_of_tasks
    /\ \E draws \in GenDraws(gen_size) :
          gen_tile_list' = generate_random_tile_list(gen_size, draws)
    /\ gen_pc' = "test"
    /\ UNCHANGED <<tasks_file, write_buffer, old_content, number_of_tasks, gen_size, written,
                   last_rejected>>
    /\ UNCHANGED <<puzzle_vars, harness_vars, eq_vars, heap_vars>>

\* The body of the while loop: the candidate is not acceptable and another
\* one is drawn.
Resample ==
    /\ gen_pc = "test"
    /\ ~is_acceptable_task(gen_tile_list)
    /\ \E draws \in GenDraws(gen_size) :
          gen_tile_list' = generate_random_tile_list(gen_size, draws)
    /\ last_rejected' = gen_tile_list
    /\ UNCHANGED <<tasks_file, write_buffer, old_content, number_of_tasks, gen_size, written,
                   gen_pc>>
    /\ UNCHANGED <<puzzle_vars, harness_vars, eq_vars, heap_vars>>

\* The candidate is acceptable: it is written to the file object, and the
\* iteration ends.
WriteTask ==
    /\ gen_pc = "test"
    /\ is_acceptable_task(gen_tile_list)
    /\ write_buffer' = write_buffer \o TaskRecord(gen_tile_list)
    /\ written' = written + 1
    /\ gen_pc' = "draw"
    /\ UNCHANGED <<tasks_file, old_content, number_of_tasks, gen_size, gen_tile_list,
                   last_rejected>>
    /\ UNCHANGED <<puzzle_vars, harness_vars, eq_vars, heap_vars>>

\* The for loop is over: the with block closes the file, which appends the
\* buffered lines to it, and generate_tasks returns.
ReturnGen ==
    /\ gen_pc = "draw"
    /\ written = number_of_tasks
    /\ tasks_file' = tasks_file \o write_buffer
    /\ write_buffer' = << >>
    /\ gen_pc' = "returned"
    /\ UNCHANGED <<old_content, number_of_tasks, gen_size, gen_tile_list, written, last_rejected>>
    /\ UNCHANGED <<puzzle_vars, harness_vars, eq_vars, heap_vars>>

NextGen == Draw \/ Resample \/ WriteTask \/ ReturnGen

SpecGen == InitGen /\ [][NextGen]_vars

\* The characters of the file after those it held at the start.
Appended == SubSeq(tasks_file, Len(old_content) + 1, Len(tasks_file))

\* The lines of a sequence of characters, each with its "\n"; characters
\* after the last "\n" make a last line without one.
RECURSIVE LinesFrom(_, _, _)
LinesFrom(chars, i, line) ==
    IF i > Len(chars)
    THEN (IF line = << >> THEN << >> ELSE <<line>>)
    ELSE IF chars[i] = "\n"
    THEN <<Append(line, chars[i])>> \o LinesFrom(chars, i + 1, << >>)
    ELSE LinesFrom(chars, i + 1, Append(line, chars[i]))

Lines(chars) == LinesFrom(chars, 1, << >>)

\* A line read back as a task is acceptable for the size asked for.
AcceptableRecord(line) ==
    /\ line[Len(line)] = "\n"
    /\ ~ParseRaises(line)
    /\ LET task == ParseLine(line)
       IN  /\ Len(task) = gen_size * gen_size
           /\ IsPermutation(task)
           /\ is_solvable(task) = TRUE
           /\ get_manhattan_distance(task) <= 12

\* C16: the file always starts with what it held before the call.  What
\* has been written after it (in the file, or still in the buffer while
\* generate_tasks runs) is one record per completed iteration, each a
\* permutation of 1..size*size that is solvable and at most 12 from the
\* goal; a candidate that was refused is not among them.  When
\* generate_tasks returns, nothing is left in the buffer and the file holds
\* number_of_tasks records after its previous content.
C16_AppendsOnlyAcceptableTasks ==
    gen_pc # "idle" =>
        LET records == Lines(Appended \o write_buffer)
        IN  /\ Len(tasks_file) >= Len(old_content)
            /\ SubSeq(tasks_file, 1, Len(old_content)) = old_content
            /\ Len(records) = written
            /\ \A k \in 1..Len(records) : AcceptableRecord(records[k])
            /\ last_rejected # << >> =>
                  \A k \in 1..Len(records) : ParseLine(records[k]) # last_rejected
            /\ gen_pc = "returned" =>
                  /\ write_buffer = << >>
                  /\ written = number_of_tasks
                  /\ Len(Lines(Appended)) = number_of_tasks

\* generate_tasks has returned after refusing a 3x3 candidate and writing
\* two tasks, one of them at distance 12, after a file whose last line was
\* not ended.
C16_Witness ==
    /\ gen_pc = "returned"
    /\ gen_size = 3
    /\ number_of_tasks = MaxTasks
    /\ old_content = <<"4", " ", "1", " ", "2", " ", "3">>
    /\ last_rejected # << >>
    /\ get_manhattan_distance(gen_tile_list) = 12
    /\ Len(Lines(Appended)) = 2
    /\ ParseLine(Lines(Appended)[2]) = gen_tile_list

====
